---- MODULE Spec2Model ----
(***************************************************************************)
(* State-machine model of the ggez synchronization layer (SyncLayer) and   *)
(* of the sync-test session (SyncTestSession) that drives it, together     *)
(* with the GameStub host used by the session's unit tests.                *)
(***************************************************************************)
EXTENDS Integers, Sequences, FiniteSets, TLC

(***************************************************************************)
(* Program constants and model bounds                                      *)
(***************************************************************************)

\* crate::MAX_PREDICTION_FRAMES, the capacity of both frame queues
MAX_PREDICTION_FRAMES == 8

\* arguments of start_synctest_session in the session's unit tests
NumPlayers == 2

InputSize == 4

\* a u32 is handled as two 16-bit limbs where it can wrap
Limb == 256 * 256

\* number of advance_frame calls explored
MaxFrame == 10

\* the session frames during which add_local_input is explored
InputFrames == {0}

\* check_distance is drawn from 0..MaxCheckDistance
MaxCheckDistance == 2

\* player handles are drawn from 0..MaxHandle
MaxHandle == 3

\* local inputs are the bincode encodings of 0..MaxInputValue
MaxInputValue == 1

\* snapshots and layer frames explored when the layer is driven directly
MaxLayerSaves == 3

(***************************************************************************)
(* Encodings used by the host stub                                         *)
(***************************************************************************)

\* bincode::serialize of a u32: four bytes, little endian
SerializeU32(v) ==
    << v % 256, (v \div 256) % 256, (v \div 65536) % 256, (v \div 16777216) % 256 >>

\* bincode::deserialize of a u32 from the first four bytes at offset off
DeserializeU32(bytes, off) ==
    bytes[off + 1] + 256 * bytes[off + 2] + 65536 * bytes[off + 3]
        + 16777216 * bytes[off + 4]

\* Adler-32 over a byte sequence, as the adler crate computes it
RECURSIVE AdlerFold(_, _, _, _)
AdlerFold(bytes, i, a, b) ==
    IF i > Len(bytes) THEN b * 65536 + a
    ELSE LET a2 == (a + bytes[i]) % 65521
             b2 == (b + a2) % 65521
         IN  AdlerFold(bytes, i + 1, a2, b2)

Adler32(bytes) == AdlerFold(bytes, 1, 1, 0)

\* the two limbs of a u32 value
U32Limbs(v) == [hi |-> v \div Limb, lo |-> v % Limb]

\* a - b on u32 without overflow checks: wraps modulo 2^32 (b - a < 2^16)
WrappingSub(a, b) ==
    IF a >= b THEN U32Limbs(a - b)
    ELSE [hi |-> Limb - 1, lo |-> Limb - (b - a)]

\* x < y on limb pairs
LimbLess(x, y) == x.hi < y.hi \/ (x.hi = y.hi /\ x.lo < y.lo)

\* bitwise or of two bytes
RECURSIVE BitOr(_, _)
BitOr(a, b) ==
    IF a = 0 THEN b
    ELSE IF b = 0 THEN a
    ELSE (IF a % 2 = 1 \/ b % 2 = 1 THEN 1 ELSE 0) + 2 * BitOr(a \div 2, b \div 2)

(***************************************************************************)
(* Option values: <<>> is None, <<x>> is Some(x)                           *)
(***************************************************************************)
None == << >>

Some(x) == << x >>

IsSome(o) == Len(o) = 1

Unwrap(o) == o[1]

(***************************************************************************)
(* GameInput and CircularBuffer                                            *)
(***************************************************************************)

\* GameInput::new(size, None): size zero bytes
GameInput_new(size) == [i \in 1..size |-> 0]

\* GameInput::erase_bits: every byte becomes zero, the length is kept
GameInput_erase_bits(bits) == [i \in 1..Len(bits) |-> 0]

\* CircularBuffer::new(capacity); items are kept oldest first
CircularBuffer_new(capacity) == [capacity |-> capacity, items |-> << >>]

CircularBuffer_len(buf) == Len(buf.items)

\* push_back: append, evicting the oldest entry when at capacity
CircularBuffer_push_back(buf, item) ==
    IF Len(buf.items) >= buf.capacity
    THEN [buf EXCEPT !.items = Append(Tail(buf.items), item)]
    ELSE [buf EXCEPT !.items = Append(buf.items, item)]

\* get(age): age 0 is the most recently pushed entry
CircularBuffer_get(buf, age) ==
    IF age >= Len(buf.items) THEN None
    ELSE Some(buf.items[Len(buf.items) - age])

\* front: the most recently pushed entry
CircularBuffer_front(buf) == CircularBuffer_get(buf, 0)

(***************************************************************************)
(* The host: GameStub of the session's unit tests                          *)
(***************************************************************************)

\* GameStateStub::default / GameStub; inputs is the argument of the last
\* advance_frame call and loads counts the load_game_state calls
GameStub_new(kind) ==
    [kind |-> kind, gs |-> [frame |-> 0, state |-> 0], rng |-> 0, loads |-> 0,
     inputs |-> << >>]

\* GameStateStub::advance_frame: the inputs are decoded and ignored
GameStateStub_advance_frame(gs, inputs) ==
    LET _inputs == DeserializeU32(inputs, 0)
    IN  [frame |-> gs.frame + 1, state |-> gs.state + 2]

\* a host whose advance consumes a source of randomness that is neither
\* saved nor replayed: the draw rng comes from a stream outside the game state
NoisyHost_advance_frame(gs, inputs, rng) ==
    [frame |-> gs.frame + 1, state |-> gs.state + 2 + rng]

\* GGEZInterface::advance_frame
Host_advance_frame(h, inputs) ==
    IF h.kind = "stub"
    THEN [h EXCEPT !.gs = GameStateStub_advance_frame(h.gs, inputs),
                   !.inputs = inputs]
    ELSE [h EXCEPT !.gs = NoisyHost_advance_frame(h.gs, inputs, h.rng),
                   !.rng = h.rng + 1,
                   !.inputs = inputs]

\* GGEZInterface::save_game_state: bincode buffer plus Adler-32 of the hash
\* stream (the two u32 fields in order)
Host_save_game_state(h) ==
    LET buffer == SerializeU32(h.gs.frame) \o SerializeU32(h.gs.state)
    IN  [buffer |-> buffer, checksum |-> Some(Adler32(buffer))]

\* GGEZInterface::load_game_state
Host_load_game_state(h, state) ==
    [h EXCEPT !.gs = [frame |-> DeserializeU32(state.buffer, 0),
                      state |-> DeserializeU32(state.buffer, 4)],
              !.loads = h.loads + 1]

(***************************************************************************)
(* Results of the operations: Ok(value) or an error / panic kind           *)
(***************************************************************************)
Ok(v) == [kind |-> "Ok", value |-> v]

Err(e) == [kind |-> e, value |-> 0]

Panics == {"PanicOverflow", "PanicAssert", "PanicIndex"}

(***************************************************************************)
(* SyncLayer                                                               *)
(***************************************************************************)
\* SyncLayer::new with a queue one slot larger than the prediction window
Mut_SyncLayer_new_extra_slot(num_players, input_size) ==
    [num_players |-> num_players,
     input_size |-> input_size,
     rolling_back |-> FALSE,
     last_confirmed_frame |-> -1,
     frame |-> 0,
     saved_frames |-> CircularBuffer_new(MAX_PREDICTION_FRAMES + 1)]

SyncLayer_new(num_players, input_size) ==
    [num_players |-> num_players,
     input_size |-> input_size,
     rolling_back |-> FALSE,
     last_confirmed_frame |-> -1,
     frame |-> 0,
     saved_frames |-> CircularBuffer_new(MAX_PREDICTION_FRAMES)]

SyncLayer_get_current_frame(l) == l.frame

\* advance_frame that moves the layer's counter two frames on
Mut_layer_advance_twice(l) == [l EXCEPT !.frame = l.frame + 2]

\* self.frame += 1; the counter stays far below 2^32 within MaxFrame calls
SyncLayer_advance_frame(l) == [l EXCEPT !.frame = l.frame + 1]

\* save_current_state that starts a fresh queue for every snapshot
Mut_save_current_state_resets(l, input, h) ==
    LET input_to_save == IF IsSome(input) THEN Unwrap(input)
                         ELSE GameInput_new(l.input_size * l.num_players)
    IN  [l EXCEPT !.saved_frames =
            CircularBuffer_push_back(CircularBuffer_new(MAX_PREDICTION_FRAMES),
                [frame |-> l.frame,
                 state |-> Host_save_game_state(h),
                 input |-> input_to_save])]

\* save_current_state whose default input has the size of one player only
Mut_save_current_state_short_default(l, input, h) ==
    LET input_to_save == IF IsSome(input) THEN Unwrap(input)
                         ELSE GameInput_new(l.input_size)
    IN  [l EXCEPT !.saved_frames =
            CircularBuffer_push_back(l.saved_frames,
                [frame |-> l.frame,
                 state |-> Host_save_game_state(h),
                 input |-> input_to_save])]

\* input is an option; the host is only read
SyncLayer_save_current_state(l, input, h) ==
    LET input_to_save == IF IsSome(input) THEN Unwrap(input)
                         ELSE GameInput_new(l.input_size * l.num_players)
    IN  [l EXCEPT !.saved_frames =
            CircularBuffer_push_back(l.saved_frames,
                [frame |-> l.frame,
                 state |-> Host_save_game_state(h),
                 input |-> input_to_save])]

\* get_last_saved_state that returns the oldest snapshot of the queue
Mut_get_last_saved_state_oldest(l) ==
    CircularBuffer_get(l.saved_frames, CircularBuffer_len(l.saved_frames) - 1)

SyncLayer_get_last_saved_state(l) == CircularBuffer_front(l.saved_frames)

\* The range check of load_frame.  self.frame - MAX_PREDICTION_FRAMES is a
\* u32 subtraction: with overflow checks (checked = TRUE, debug builds) it
\* panics when it would go below zero, without them it wraps modulo 2^32.
\* The || chain short-circuits, so the subtraction is only evaluated when
\* frame_to_load < self.frame.
LoadFrameRangeCheck(l, frame_to_load, checked) ==
    IF l.frame = frame_to_load \/ frame_to_load > l.frame THEN "reject"
    ELSE IF l.frame < MAX_PREDICTION_FRAMES /\ checked THEN "overflow"
    ELSE IF LimbLess(U32Limbs(frame_to_load), WrappingSub(l.frame, MAX_PREDICTION_FRAMES))
         THEN "reject"
    ELSE "pass"

\* load_frame that discards the snapshots newer than the requested frame,
\* leaving the requested frame at the back of the queue (or nothing at all)
Mut_load_frame_truncates(l, h, frame_to_load, checked) ==
    LET range == LoadFrameRangeCheck(l, frame_to_load, checked)
        kept == SelectSeq(l.saved_frames.items, LAMBDA fi : fi.frame <= frame_to_load)
        l2 == [l EXCEPT !.saved_frames.items = kept]
    IN  IF range = "reject" THEN [res |-> Err("InvalidRequest"), layer |-> l, host |-> h]
        ELSE IF range = "overflow" THEN [res |-> Err("PanicOverflow"), layer |-> l, host |-> h]
        ELSE IF kept = << >> \/ kept[Len(kept)].frame # frame_to_load
             THEN [res |-> Err("GeneralFailure"), layer |-> l2, host |-> h]
        ELSE [res |-> Ok(0), layer |-> l2,
              host |-> Host_load_game_state(h, kept[Len(kept)].state)]

\* load_frame: the result, the layer afterwards and the host afterwards
SyncLayer_load_frame(l, h, frame_to_load, checked) ==
    LET range == LoadFrameRangeCheck(l, frame_to_load, checked)
        pos == l.frame - frame_to_load
        frame_info == CircularBuffer_get(l.saved_frames, pos)
    IN  IF range = "reject" THEN [res |-> Err("InvalidRequest"), layer |-> l, host |-> h]
        ELSE IF range = "overflow" THEN [res |-> Err("PanicOverflow"), layer |-> l, host |-> h]
        ELSE IF ~IsSome(frame_info) THEN [res |-> Err("GeneralFailure"), layer |-> l, host |-> h]
        ELSE IF Unwrap(frame_info).frame # frame_to_load
             THEN [res |-> Err("PanicAssert"), layer |-> l, host |-> h]
        ELSE [res |-> Ok(0), layer |-> l,
              host |-> Host_load_game_state(h, Unwrap(frame_info).state)]

(***************************************************************************)
(* SyncTestSession                                                         *)
(***************************************************************************)
SyncTestSession_new(check_distance, num_players, input_size) ==
    [frame |-> 0,
     num_players |-> num_players,
     input_size |-> input_size,
     check_distance |-> check_distance,
     running |-> FALSE,
     current_input |-> GameInput_new(input_size * num_players),
     saved_frames |-> CircularBuffer_new(MAX_PREDICTION_FRAMES),
     sync_layer |-> SyncLayer_new(num_players, input_size)]

\* add_player that hands out the first handle instead of the one given
Mut_add_player_first_handle(s, player_handle) ==
    IF player_handle > s.num_players THEN Err("InvalidPlayerHandle")
    ELSE Ok(0)

SyncTestSession_add_player(s, player_handle) ==
    IF player_handle > s.num_players THEN Err("InvalidPlayerHandle")
    ELSE Ok(player_handle)

\* start_session that toggles the flag
Mut_start_session_toggles(s) ==
    [res |-> Ok(0), sess |-> [s EXCEPT !.running = ~s.running]]

\* start_session: the result and the session afterwards
SyncTestSession_start_session(s) ==
    IF s.running THEN [res |-> Err("InvalidRequest"), sess |-> s]
    ELSE [res |-> Ok(0), sess |-> [s EXCEPT !.running = TRUE]]

\* the copy loop of add_local_input from iteration i (0-based) on: an index
\* past the end of input_bits panics, keeping the bytes written before it
RECURSIVE OrInputBits(_, _, _, _)
OrInputBits(bits, lower_bound, input, i) ==
    IF i >= Len(input) THEN [bits |-> bits, panic |-> FALSE]
    ELSE IF lower_bound + i >= Len(bits) THEN [bits |-> bits, panic |-> TRUE]
    ELSE OrInputBits([bits EXCEPT ![lower_bound + i + 1] = BitOr(@, input[i + 1])],
                     lower_bound, input, i + 1)

\* add_local_input that tests the running flag before the handle
Mut_add_local_input_running_first(s, player_handle, input) ==
    IF ~s.running
    THEN [res |-> Err("NotSynchronized"), sess |-> s]
    ELSE IF player_handle > s.num_players
    THEN [res |-> Err("InvalidPlayerHandle"), sess |-> s]
    ELSE LET lower_bound == player_handle * s.input_size
             copied == OrInputBits(s.current_input, lower_bound, input, 0)
         IN  [res |-> IF copied.panic THEN Err("PanicIndex") ELSE Ok(0),
              sess |-> [s EXCEPT !.current_input = copied.bits]]

\* add_local_input: the result and the session afterwards
SyncTestSession_add_local_input(s, player_handle, input) ==
    IF player_handle > s.num_players
    THEN [res |-> Err("InvalidPlayerHandle"), sess |-> s]
    ELSE IF ~s.running
    THEN [res |-> Err("NotSynchronized"), sess |-> s]
    ELSE LET lower_bound == player_handle * s.input_size
             copied == OrInputBits(s.current_input, lower_bound, input, 0)
         IN  [res |-> IF copied.panic THEN Err("PanicIndex") ELSE Ok(0),
              sess |-> [s EXCEPT !.current_input = copied.bits]]

\* advance_frame that rolls the host back to the last saved state once the
\* ledger is long enough, and does not resimulate
Mut_advance_frame_no_resim(s, h) ==
    LET layer1 == SyncLayer_save_current_state(s.sync_layer, Some(s.current_input), h)
        last == Unwrap(SyncLayer_get_last_saved_state(layer1))
        ledger == CircularBuffer_push_back(s.saved_frames, last)
        h2 == Host_advance_frame(h, s.current_input)
    IN  [res |-> Ok(0),
         sess |-> [s EXCEPT !.sync_layer = SyncLayer_advance_frame(layer1),
                            !.saved_frames = ledger,
                            !.frame = s.frame + 1,
                            !.current_input = GameInput_erase_bits(s.current_input)],
         host |-> IF CircularBuffer_len(ledger) > s.check_distance
                  THEN Host_load_game_state(h2, last.state) ELSE h2]

\* advance_frame that erases the input bits before the host is advanced
Mut_advance_frame_erases_first(s, h) ==
    LET layer1 == SyncLayer_save_current_state(s.sync_layer, Some(s.current_input), h)
        last == Unwrap(SyncLayer_get_last_saved_state(layer1))
        erased == GameInput_erase_bits(s.current_input)
    IN  [res |-> Ok(0),
         sess |-> [s EXCEPT !.sync_layer = SyncLayer_advance_frame(layer1),
                            !.saved_frames = CircularBuffer_push_back(s.saved_frames, last),
                            !.frame = s.frame + 1,
                            !.current_input = erased],
         host |-> Host_advance_frame(h, erased)]

\* advance_frame: the result, the session afterwards and the host afterwards.
\* The simulated rollback section is an empty block.
SyncTestSession_advance_frame(s, h) ==
    LET layer1 == SyncLayer_save_current_state(s.sync_layer, Some(s.current_input), h)
        last == SyncLayer_get_last_saved_state(layer1)
    IN  IF ~IsSome(last)
        THEN [res |-> Err("GeneralFailure"),
              sess |-> [s EXCEPT !.sync_layer = layer1], host |-> h]
        ELSE LET ledger == CircularBuffer_push_back(s.saved_frames, Unwrap(last))
                 h2 == Host_advance_frame(h, s.current_input)
                 layer2 == SyncLayer_advance_frame(layer1)
             IN  [res |-> Ok(0),
                  sess |-> [s EXCEPT !.sync_layer = layer2,
                                     !.saved_frames = ledger,
                                     !.frame = s.frame + 1,
                                     !.current_input = GameInput_erase_bits(s.current_input)],
                  host |-> h2]

\* idle and the operations a sync test does not support
SyncTestSession_idle(s) == Ok(0)

SyncTestSession_disconnect_player(s, player_handle) == Err("Unsupported")

SyncTestSession_get_network_stats(s, player_handle) == Err("Unsupported")

\* set_frame_delay that accepts the delay
Mut_set_frame_delay_accepts(s, frame_delay, player_handle) == Ok(0)

SyncTestSession_set_frame_delay(s, frame_delay, player_handle) == Err("Unsupported")

SyncTestSession_set_disconnect_timeout(s, timeout) == Err("Unsupported")

SyncTestSession_set_disconnect_notify_delay(s, notify_delay) == Err("Unsupported")

(***************************************************************************)
(* State machine                                                           *)
(***************************************************************************)
VARIABLES
    sess,      \* the SyncTestSession
    host,      \* the GGEZInterface implementation handed to the session
    lastOp,    \* the operation that ran last
    lastArg,   \* its player handle or frame argument, when the result depends on it
    result,    \* what it returned
    calls      \* number of advance_frame calls made so far

vars == << sess, host, lastOp, lastArg, result, calls >>

Handles == 0..MaxHandle

\* local inputs: encoded u32 values, and one that is a byte too long
Inputs == { SerializeU32(v) : v \in 0..MaxInputValue } \cup { << 1, 0, 0, 0, 1 >> }

HostKinds == {"stub", "noisy"}

Init ==
    /\ \E cd \in 0..MaxCheckDistance : sess = SyncTestSession_new(cd, NumPlayers, InputSize)
    /\ \E k \in HostKinds : host = GameStub_new(k)
    /\ lastOp = "new"
    /\ lastArg = 0
    /\ result = Ok(0)
    /\ calls = 0

\* a panic ends the run
Alive == result.kind \notin Panics

AddPlayer(player_handle) ==
    /\ Alive
    /\ result' = SyncTestSession_add_player(sess, player_handle)
    /\ lastOp' = "add_player"
    /\ lastArg' = player_handle
    /\ UNCHANGED << sess, host, calls >>

StartSession ==
    /\ Alive
    /\ LET r == SyncTestSession_start_session(sess)
       IN  /\ sess' = r.sess
           /\ result' = r.res
    /\ lastOp' = "start_session"
    /\ lastArg' = 0
    /\ UNCHANGED << host, calls >>

AddLocalInput(player_handle, input) ==
    /\ Alive
    /\ sess.frame \in InputFrames
    /\ LET r == SyncTestSession_add_local_input(sess, player_handle, input)
       IN  /\ sess' = r.sess
           /\ result' = r.res
    /\ lastOp' = "add_local_input"
    /\ lastArg' = player_handle
    /\ UNCHANGED << host, calls >>

AdvanceFrame ==
    /\ Alive
    /\ calls < MaxFrame
    /\ LET r == SyncTestSession_advance_frame(sess, host)
       IN  /\ sess' = r.sess
           /\ host' = r.host
           /\ result' = r.res
    /\ lastOp' = "advance_frame"
    /\ lastArg' = 0
    /\ calls' = calls + 1

\* the layer's load_frame, called on the session's layer between ticks;
\* either build of the crate may be running
LoadFrame(frame_to_load, checked) ==
    /\ Alive
    /\ LET r == SyncLayer_load_frame(sess.sync_layer, host, frame_to_load, checked)
       IN  /\ sess' = [sess EXCEPT !.sync_layer = r.layer]
           /\ host' = r.host
           /\ result' = r.res
    /\ lastOp' = "load_frame"
    /\ lastArg' = frame_to_load
    /\ UNCHANGED calls

Idle ==
    /\ Alive
    /\ result' = SyncTestSession_idle(sess)
    /\ lastOp' = "idle"
    /\ lastArg' = 0
    /\ UNCHANGED << sess, host, calls >>

DisconnectPlayer(player_handle) ==
    /\ Alive
    /\ result' = SyncTestSession_disconnect_player(sess, player_handle)
    /\ lastOp' = "disconnect_player"
    /\ lastArg' = 0
    /\ UNCHANGED << sess, host, calls >>

GetNetworkStats(player_handle) ==
    /\ Alive
    /\ result' = SyncTestSession_get_network_stats(sess, player_handle)
    /\ lastOp' = "get_network_stats"
    /\ lastArg' = 0
    /\ UNCHANGED << sess, host, calls >>

SetFrameDelay(frame_delay, player_handle) ==
    /\ Alive
    /\ result' = SyncTestSession_set_frame_delay(sess, frame_delay, player_handle)
    /\ lastOp' = "set_frame_delay"
    /\ lastArg' = 0
    /\ UNCHANGED << sess, host, calls >>

SetDisconnectTimeout(timeout) ==
    /\ Alive
    /\ result' = SyncTestSession_set_disconnect_timeout(sess, timeout)
    /\ lastOp' = "set_disconnect_timeout"
    /\ lastArg' = 0
    /\ UNCHANGED << sess, host, calls >>

SetDisconnectNotifyDelay(notify_delay) ==
    /\ Alive
    /\ result' = SyncTestSession_set_disconnect_notify_delay(sess, notify_delay)
    /\ lastOp' = "set_disconnect_notify_delay"
    /\ lastArg' = 0
    /\ UNCHANGED << sess, host, calls >>

Next ==
    \/ \E p \in Handles : AddPlayer(p)
    \/ StartSession
    \/ \E p \in Handles, i \in Inputs : AddLocalInput(p, i)
    \/ AdvanceFrame
    \/ \E f \in 0..(sess.sync_layer.frame + 1), c \in BOOLEAN : LoadFrame(f, c)
    \/ Idle
    \/ \E p \in Handles : DisconnectPlayer(p)
    \/ \E p \in Handles : GetNetworkStats(p)
    \/ \E p \in Handles : SetFrameDelay(2, p)
    \/ SetDisconnectTimeout(0)
    \/ SetDisconnectNotifyDelay(0)

Spec == Init /\ [][Next]_vars

(***************************************************************************)
(* The synchronization layer driven directly, in any order of its          *)
(* operations                                                              *)
(***************************************************************************)

\* the inputs handed to save_current_state: none, or a merged frame input
LayerInputs ==
    {None} \cup { Some(SerializeU32(v) \o SerializeU32(0)) : v \in 0..MaxInputValue }

LayerInit ==
    /\ sess = SyncTestSession_new(0, NumPlayers, InputSize)
    /\ host = GameStub_new("stub")
    /\ lastOp = "new"
    /\ lastArg = 0
    /\ result = Ok(0)
    /\ calls = 0

\* calls counts the snapshots saved
LayerSaveCurrentState(input) ==
    /\ Alive
    /\ calls < MaxLayerSaves
    /\ sess' = [sess EXCEPT !.sync_layer = SyncLayer_save_current_state(@, input, host)]
    /\ lastOp' = "save_current_state"
    /\ lastArg' = 0
    /\ result' = Ok(0)
    /\ calls' = calls + 1
    /\ UNCHANGED host

\* the driver lets the host simulate one frame and advances the layer
LayerAdvanceFrame ==
    /\ Alive
    /\ sess.sync_layer.frame < MaxLayerSaves
    /\ host' = Host_advance_frame(host, GameInput_new(NumPlayers * InputSize))
    /\ sess' = [sess EXCEPT !.sync_layer = SyncLayer_advance_frame(@)]
    /\ lastOp' = "layer_advance_frame"
    /\ lastArg' = 0
    /\ result' = Ok(0)
    /\ UNCHANGED calls

\* get_last_saved_state and get_current_frame only read the layer
LayerGetLastSavedState ==
    /\ Alive
    /\ lastOp' = "get_last_saved_state"
    /\ lastArg' = SyncLayer_get_current_frame(sess.sync_layer)
    /\ result' = IF IsSome(SyncLayer_get_last_saved_state(sess.sync_layer))
                 THEN Ok(1) ELSE Ok(0)
    /\ UNCHANGED << sess, host, calls >>

LayerNext ==
    \/ \E i \in LayerInputs : LayerSaveCurrentState(i)
    \/ LayerAdvanceFrame
    \/ LayerGetLastSavedState
    \/ \E f \in 0..(sess.sync_layer.frame + 1), c \in BOOLEAN : LoadFrame(f, c)

LayerSpec == LayerInit /\ [][LayerNext]_vars

(***************************************************************************)
(* Resimulation of the rolled-back frames, as a verification pass over the *)
(* ledger would perform it from the state the session is in                *)
(***************************************************************************)

\* the ledger snapshot at the given age
LedgerAt(age) == Unwrap(CircularBuffer_get(sess.saved_frames, age))

\* h is the host positioned at the snapshot of the given age: advance it
\* with the recorded input and compare with the checksum recorded for the
\* following frame, then continue towards the tip
RECURSIVE ResimMismatchFrom(_, _)
ResimMismatchFrom(h, age) ==
    IF age = 0 THEN FALSE
    ELSE LET h2 == Host_advance_frame(h, LedgerAt(age).input)
             fresh == Host_save_game_state(h2).checksum
             recorded == LedgerAt(age - 1).state.checksum
         IN  \/ IsSome(fresh) /\ IsSome(recorded) /\ fresh # recorded
             \/ ResimMismatchFrom(h2, age - 1)

\* rolling back check_distance frames and resimulating them with the
\* recorded inputs yields a checksum that differs from a recorded one
ResimMismatch ==
    /\ CircularBuffer_len(sess.saved_frames) > sess.check_distance
    /\ sess.check_distance >= 1
    /\ ResimMismatchFrom(
          Host_load_game_state(host, LedgerAt(sess.check_distance - 1).state),
          sess.check_distance - 1)

(***************************************************************************)
(* Claims                                                                  *)
(***************************************************************************)

\* C1: on a started session, an advance_frame call after which resimulating
\* the rolled-back frames with their recorded inputs gives a checksum that
\* differs from the recorded one returns SyncTestFailed.
C1_DesyncReported ==
    (sess.running /\ lastOp = "advance_frame" /\ ResimMismatch)
        => result.kind = "SyncTestFailed"

\* C2: with the pure GameStub host on a started session every advance_frame
\* call returns Ok and leaves the host's frame counter at the number of
\* calls made so far (i+1 after call i), for every check_distance.
C2_PureHostAdvances ==
    (sess.running /\ host.kind = "stub" /\ lastOp = "advance_frame")
        => (result = Ok(0) /\ host.gs.frame = calls)

\* C2 witness: a started session with the pure host, past the point where
\* the ledger is full and longer than a non-zero check_distance
C2_Witness ==
    /\ sess.running /\ host.kind = "stub" /\ lastOp = "advance_frame"
    /\ sess.check_distance > 0
    /\ calls > MAX_PREDICTION_FRAMES
    /\ host.gs.frame = calls

\* C3: load_frame returns InvalidRequest exactly when the target is the
\* current frame, a later frame, or below current_frame - W computed over
\* the integers, and the comparison never overflows the u32 counter.
C3_RangeCheckOverIntegers ==
    lastOp = "load_frame" =>
        LET f == sess.sync_layer.frame
            t == lastArg
        IN  /\ result.kind # "PanicOverflow"
            /\ (result.kind = "InvalidRequest")
                  <=> (t = f \/ t > f \/ t < f - MAX_PREDICTION_FRAMES)

\* C4: when load_frame passes its range check and finds a snapshot at age
\* current_frame - target_frame, the snapshot carries the target frame
\* number (the assertion holds) and its state is the one the host loads.
C4_LoadedSnapshotIsTarget ==
    (lastOp = "load_frame"
        /\ result.kind \notin {"InvalidRequest", "PanicOverflow", "GeneralFailure"})
    => /\ result.kind = "Ok"
       /\ \E i \in 1..Len(sess.sync_layer.saved_frames.items) :
            LET fi == sess.sync_layer.saved_frames.items[i]
            IN  /\ fi.frame = lastArg
                /\ host.gs = [frame |-> DeserializeU32(fi.state.buffer, 0),
                              state |-> DeserializeU32(fi.state.buffer, 4)]

\* C5: a load_frame call whose target lies in the window
\* current_frame - W <= target < current_frame never returns GeneralFailure.
C5_NoGeneralFailureInWindow ==
    (lastOp = "load_frame"
        /\ sess.sync_layer.frame - MAX_PREDICTION_FRAMES <= lastArg
        /\ lastArg < sess.sync_layer.frame)
    => result.kind # "GeneralFailure"

C7_StartOnce ==
    /\ ~sess.running
    /\ [][/\ sess.running => sess'.running
          /\ lastOp' = "start_session" =>
                IF sess.running
                THEN result' = Err("InvalidRequest") /\ sess' = sess
                ELSE result' = Ok(0) /\ sess'.running]_vars

\* C7 witness: a second start_session was rejected after frames were advanced
C7_Witness ==
    /\ lastOp = "start_session"
    /\ result = Err("InvalidRequest")
    /\ sess.running
    /\ sess.frame > 0

\* C8 as stated: before start_session, add_local_input fails with
\* NotSynchronized for every handle, valid or not.
C8_NotSynchronizedForEveryHandle ==
    (lastOp = "add_local_input" /\ ~sess.running) => result.kind = "NotSynchronized"

\* C8 amended: before start_session, add_local_input fails with
\* NotSynchronized for every handle <= num_players and with
\* InvalidPlayerHandle for every larger handle, and in both cases leaves the
\* current input unchanged.
C8_NotSynchronizedForAcceptedHandle ==
    [][(lastOp' = "add_local_input" /\ ~sess.running) =>
          /\ result' = IF lastArg' > sess.num_players
                       THEN Err("InvalidPlayerHandle") ELSE Err("NotSynchronized")
          /\ sess'.current_input = sess.current_input]_vars

\* C8 witness: an accepted handle was refused on a session not yet started
C8_Witness ==
    /\ lastOp = "add_local_input"
    /\ ~sess.running
    /\ lastArg <= sess.num_players
    /\ result = Err("NotSynchronized")

C10_RejectsNonIndexHandle ==
    lastOp = "add_player" => (result.kind = "Ok" <=> lastArg < sess.num_players)

\* C11: on a running session an accepted add_local_input(h, input) ors the
\* input bytewise into the slice of player h and leaves every byte outside
\* that slice as it was (so a then b gives a | b, in either order).
C11_OrMergeLaw ==
    [][\A p \in Handles, i \in Inputs :
          (AddLocalInput(p, i) /\ result'.kind = "Ok") =>
              \A k \in 1..Len(sess.current_input) :
                  LET j == k - p * sess.input_size
                  IN  sess'.current_input[k] =
                          IF j >= 1 /\ j <= sess.input_size
                          THEN BitOr(sess.current_input[k],
                                     IF j <= Len(i) THEN i[j] ELSE 0)
                          ELSE sess.current_input[k]]_vars

\* C20: an add_local_input call that passes the handle and running checks
\* only touches indices inside current_input (no index panic), only inside
\* the slice of its own handle, and keeps the buffer length at
\* input_size * num_players.
C20_WritesOnlyOwnSlice ==
    [][(lastOp' = "add_local_input" /\ sess.running /\ lastArg' <= sess.num_players) =>
          /\ result'.kind # "PanicIndex"
          /\ Len(sess'.current_input) = sess.input_size * sess.num_players
          /\ \A k \in 1..Len(sess.current_input) :
                (k <= lastArg' * sess.input_size \/ k > (lastArg' + 1) * sess.input_size)
                    => sess'.current_input[k] = sess.current_input[k]]_vars

LayerBuffer == sess.sync_layer.saved_frames

PushedOnto(old, new) ==
    /\ CircularBuffer_len(new) <= MAX_PREDICTION_FRAMES
    /\ CircularBuffer_len(new) =
          IF CircularBuffer_len(old) = MAX_PREDICTION_FRAMES
          THEN MAX_PREDICTION_FRAMES ELSE CircularBuffer_len(old) + 1
    /\ \A k \in 0..(CircularBuffer_len(new) - 2) :
          CircularBuffer_get(new, k + 1) = CircularBuffer_get(old, k)
    /\ \A age \in 0..(MAX_PREDICTION_FRAMES + 1) :
          (CircularBuffer_get(new, age) = None) <=> (age >= CircularBuffer_len(new))

LastSaved == SyncLayer_get_last_saved_state(sess.sync_layer)

Ledger == sess.saved_frames

\* C16: advance_frame snapshots first (the state the host is in and the
\* merged input, tagged with the current frame), then hands that same input
\* to the host's advance, then increments the counter and clears the input:
\* afterwards the current input is all zero with its length unchanged, and
\* the snapshots recorded earlier keep their inputs.
C16_SnapshotAdvanceClear ==
    [][(lastOp' = "advance_frame" /\ result'.kind = "Ok") =>
          LET snap == Unwrap(CircularBuffer_front(LayerBuffer'))
          IN  /\ snap.frame = sess.sync_layer.frame
              /\ snap.state = Host_save_game_state(host)
              /\ snap.input = sess.current_input
              /\ CircularBuffer_front(Ledger') = Some(snap)
              /\ host'.inputs = sess.current_input
              /\ host'.gs.frame = host.gs.frame + 1
              /\ sess'.sync_layer.frame = sess.sync_layer.frame + 1
              /\ Len(sess'.current_input) = Len(sess.current_input)
              /\ \A k \in 1..Len(sess'.current_input) : sess'.current_input[k] = 0
              /\ \A a \in 0..(CircularBuffer_len(LayerBuffer') - 2) :
                    /\ CircularBuffer_get(LayerBuffer', a + 1) = CircularBuffer_get(LayerBuffer, a)
                    /\ CircularBuffer_get(Ledger', a + 1) = CircularBuffer_get(Ledger, a)]_vars

\* C16 witness: a non-zero merged input sits in the snapshot of frame 0 and
\* was handed to the host, a later frame has been recorded, and the current
\* input is cleared
C16_Witness ==
    /\ lastOp = "advance_frame"
    /\ sess.frame = 2
    /\ Unwrap(CircularBuffer_get(Ledger, 1)).input = << 1, 0, 0, 0, 1, 0, 0, 0 >>
    /\ Unwrap(CircularBuffer_get(Ledger, 0)).input = sess.current_input
    /\ host.inputs = sess.current_input
    /\ sess.current_input = GameInput_new(sess.input_size * sess.num_players)

\* C17: an advance_frame call performs the rollback-and-compare pass (the
\* host is asked to load the rollback target) if and only if the ledger
\* holds more than check_distance entries after the call's push.
C17_PassIffLedgerLongEnough ==
    [][(lastOp' = "advance_frame" /\ result'.kind = "Ok") =>
          ((CircularBuffer_len(Ledger') > sess.check_distance) <=> (host'.loads > host.loads))]_vars

\* C18: the ledger and the layer's history buffer are the same queue of at
\* most W snapshots; the ledger changes only in an advance_frame step, by
\* the push of that step's snapshot, and advance_frame never returns
\* GeneralFailure.
C18_LedgerMirrorsLayer ==
    /\ Ledger = LayerBuffer
    /\ [][/\ Ledger' = LayerBuffer'
          /\ CircularBuffer_len(Ledger') <= MAX_PREDICTION_FRAMES
          /\ lastOp' # "advance_frame" => Ledger' = Ledger
          /\ lastOp' = "advance_frame" =>
                /\ result'.kind # "GeneralFailure"
                /\ PushedOnto(Ledger, Ledger')
                /\ CircularBuffer_front(Ledger') = CircularBuffer_front(LayerBuffer')]_vars

\* C18 witness: a load_frame request has been turned down on a session whose
\* ledger and history buffer are both full after more than W ticks
C18_Witness ==
    /\ lastOp = "load_frame"
    /\ result.kind = "InvalidRequest"
    /\ calls > MAX_PREDICTION_FRAMES
    /\ CircularBuffer_len(Ledger) = MAX_PREDICTION_FRAMES
    /\ Ledger = LayerBuffer

\* C19: the session's frame counter, the layer's frame counter and the
\* number of advance_frame calls (all of which succeed) are equal; a
\* counter moves only in a successful advance_frame step, by one; and the
\* snapshot at age k of the layer's buffer has frame current_frame - 1 - k.
C19_FrameCounters ==
    /\ sess.frame = 0 /\ sess.sync_layer.frame = 0
    /\ [][/\ sess'.frame = SyncLayer_get_current_frame(sess'.sync_layer)
          /\ sess'.frame = calls'
          /\ sess'.frame = sess.frame
                + (IF lastOp' = "advance_frame" /\ result'.kind = "Ok" THEN 1 ELSE 0)
          /\ \A k \in 0..(CircularBuffer_len(LayerBuffer') - 1) :
                Unwrap(CircularBuffer_get(LayerBuffer', k)).frame + 1 + k = sess'.sync_layer.frame]_vars

\* C19 witness: after more than W ticks the full buffer holds the frames
\* from current_frame - W at the oldest age to current_frame - 1 at age 0
C19_Witness ==
    /\ lastOp = "advance_frame"
    /\ sess.frame > MAX_PREDICTION_FRAMES
    /\ CircularBuffer_len(LayerBuffer) = MAX_PREDICTION_FRAMES
    /\ Unwrap(CircularBuffer_get(LayerBuffer, 0)).frame = sess.frame - 1
    /\ Unwrap(CircularBuffer_get(LayerBuffer, MAX_PREDICTION_FRAMES - 1)).frame
          = sess.frame - MAX_PREDICTION_FRAMES
    /\ sess.frame - MAX_PREDICTION_FRAMES > 0

====
